---- MODULE Spec2Model ----
(***************************************************************************)
(* Model of nanovdb_convert (src/nanovdb/cmd/convert/nanovdb_convert.cpp): *)
(* the command-line driver that converts OpenVDB files to one NanoVDB file *)
(* or NanoVDB files to one OpenVDB file.                                   *)
(*                                                                         *)
(* A behaviour is one run of main().  Strings are sequences of one-        *)
(* character strings, so that the extension test, the lower-casing of the  *)
(* mode values and the answer test are computed as the code computes them. *)
(* argv holds argv[1..argc-1]; argv[0] (the program name) is only printed. *)
(***************************************************************************)
EXTENDS Naturals, Sequences, FiniteSets

\* ------------------------------------------------------------------ bounds
\* Largest number of command-line arguments after the program name.
MaxArgs == 4

\* ------------------------------------------------------------- exit codes
EXIT_SUCCESS == 0
EXIT_FAILURE == 1

\* ---------------------------------------------------------------- strings
S_v == <<"-", "v">>
S_verbose == <<"-", "-", "v", "e", "r", "b", "o", "s", "e">>
S_f == <<"-", "f">>
S_force == <<"-", "-", "f", "o", "r", "c", "e">>
S_h == <<"-", "h">>
S_help == <<"-", "-", "h", "e", "l", "p">>
S_b == <<"-", "b">>
S_blosc == <<"-", "-", "b", "l", "o", "s", "c">>
S_z == <<"-", "z">>
S_zip == <<"-", "-", "z", "i", "p">>
S_c == <<"-", "c">>
S_checksum == <<"-", "-", "c", "h", "e", "c", "k", "s", "u", "m">>
S_s == <<"-", "s">>
S_stats == <<"-", "-", "s", "t", "a", "t", "s">>
S_g == <<"-", "g">>
S_grid == <<"-", "-", "g", "r", "i", "d">>
S_none == <<"n", "o", "n", "e">>
S_partial == <<"p", "a", "r", "t", "i", "a", "l">>
S_full == <<"f", "u", "l", "l">>
S_bbox == <<"b", "b", "o", "x">>
S_extrema == <<"e", "x", "t", "r", "e", "m", "a">>
S_all == <<"a", "l", "l">>
S_vdb == <<"v", "d", "b">>
S_nvdb == <<"n", "v", "d", "b">>
S_Y == <<"Y">>
S_y == <<"y">>
S_yes == <<"y", "e", "s">>
S_YES == <<"Y", "E", "S">>

\* std::tolower on one character (C locale).
Upper == <<"A", "B", "C", "D", "E", "F", "G", "H", "I", "J", "K", "L", "M",
           "N", "O", "P", "Q", "R", "S", "T", "U", "V", "W", "X", "Y", "Z">>
Lower == <<"a", "b", "c", "d", "e", "f", "g", "h", "i", "j", "k", "l", "m",
           "n", "o", "p", "q", "r", "s", "t", "u", "v", "w", "x", "y", "z">>

tolower(c) ==
    IF \E n \in 1..26 : Upper[n] = c
    THEN Lower[CHOOSE n \in 1..26 : Upper[n] = c]
    ELSE c

\* std::transform(str.begin(), str.end(), str.begin(), tolower)
ToLowerStr(str) == [n \in 1..Len(str) |-> tolower(str[n])]

\* s.find_last_of(".") + 1, as a count of characters to drop: npos + 1
\* wraps to 0, so a name without a dot is its own extension.
FindLastOfDotPlus1(s) ==
    IF \E n \in 1..Len(s) : s[n] = "."
    THEN CHOOSE n \in 1..Len(s) : s[n] = "." /\ \A m \in (n+1)..Len(s) : s[m] # "."
    ELSE 0

\* s.substr(s.find_last_of(".") + 1)
Ext(s) == SubSeq(s, FindLastOfDotPlus1(s) + 1, Len(s))

\* arg[0] == '-'  (arg[0] of an empty std::string is '\0')
IsOption(arg) == Len(arg) > 0 /\ arg[1] = "-"

\* ---------------------------------------------------------- option state
\* The locals of main() that the argument loop sets (lines 44-49).
DefaultOptions ==
    [ codec     |-> "NONE",
      sMode     |-> "Default",
      cMode     |-> "Default",
      verbose   |-> FALSE,
      overwrite |-> FALSE,
      gridName  |-> <<>>,
      fileNames |-> <<>> ]

\* Mutant of ChecksumModeOf: an unknown value falls back to the default mode.
ChecksumModeOrDefault(str) ==
    IF str = S_none THEN "Disable"
    ELSE IF str = S_partial THEN "Partial"
    ELSE IF str = S_full THEN "Full"
    ELSE "Default"

\* The checksum mode selected by a lower-cased value, "" when it is none of
\* the three (lines 70-79).
ChecksumModeOf(str) ==
    IF str = S_none THEN "Disable"
    ELSE IF str = S_partial THEN "Partial"
    ELSE IF str = S_full THEN "Full"
    ELSE ""

\* The stats mode selected by a lower-cased value, "" when it is none of the
\* four (lines 88-99).
StatsModeOf(str) ==
    IF str = S_none THEN "Disable"
    ELSE IF str = S_bbox THEN "BBox"
    ELSE IF str = S_extrema THEN "MinMax"
    ELSE IF str = S_all THEN "All"
    ELSE ""

\* One iteration of the argument loop (lines 51-114) at index n of args.
\* Result: the options after it, the next index, and how the iteration ends:
\* "next" (loop continues), "help" (usage, EXIT_SUCCESS), "fail" (usage,
\* EXIT_FAILURE).
ParseArg(args, n, o) ==
    LET arg  == args[n]
        last == (n = Len(args))
        cont(p, m) == [opt |-> p, i |-> m, end |-> "next"]
        stop(how)  == [opt |-> o, i |-> n, end |-> how]
    IN  IF IsOption(arg) THEN
            IF arg = S_v \/ arg = S_verbose THEN
                cont([o EXCEPT !.verbose = TRUE], n + 1)
            ELSE IF arg = S_f \/ arg = S_force THEN
                cont([o EXCEPT !.overwrite = TRUE], n + 1)
            ELSE IF arg = S_h \/ arg = S_help THEN
                stop("help")
            ELSE IF arg = S_b \/ arg = S_blosc THEN
                cont([o EXCEPT !.codec = "BLOSC"], n + 1)
            ELSE IF arg = S_z \/ arg = S_zip THEN
                cont([o EXCEPT !.codec = "ZIP"], n + 1)
            ELSE IF arg = S_c \/ arg = S_checksum THEN
                IF last THEN stop("fail")
                ELSE LET mode == ChecksumModeOf(ToLowerStr(args[n + 1]))
                     IN  IF mode = "" THEN stop("fail")
                         ELSE cont([o EXCEPT !.cMode = mode], n + 2)
            ELSE IF arg = S_s \/ arg = S_stats THEN
                IF last THEN stop("fail")
                ELSE LET mode == StatsModeOf(ToLowerStr(args[n + 1]))
                     IN  IF mode = "" THEN stop("fail")
                         ELSE cont([o EXCEPT !.sMode = mode], n + 2)
            ELSE IF arg = S_g \/ arg = S_grid THEN
                IF last THEN stop("fail")
                ELSE cont([o EXCEPT !.gridName = args[n + 1]], n + 2)
            ELSE stop("fail")
        ELSE IF arg # <<>> THEN
            cont([o EXCEPT !.fileNames = Append(o.fileNames, arg)], n + 1)
        ELSE cont(o, n + 1)

\* The answer test of the overwrite guard (line 138): TRUE when the run goes on.
Proceeds(answer) ==
    ~(answer # <<>> /\ answer # S_Y /\ answer # S_y /\ answer # S_yes /\ answer # S_YES)

\* ------------------------------------------------------------ environment
\* A grid, as the library hands it to main(): its name and its format, and
\* for an encoded grid the statistics and checksum modes it was encoded with.
OpenGrid(name) == [name |-> name, fmt |-> "open", stats |-> "", checksum |-> ""]
NanoGrid(name) == [name |-> name, fmt |-> "nano", stats |-> "Default", checksum |-> "Default"]

G_1 == <<"g", "1">>
G_2 == <<"g", "2">>
F_a_vdb == <<"a", ".", "v", "d", "b">>
F_b_vdb == <<"b", ".", "v", "d", "b">>
F_a_nvdb == <<"a", ".", "n", "v", "d", "b">>
F_b_nvdb == <<"b", ".", "n", "v", "d", "b">>

\* The input files on disk: a path that is not listed does not exist, and
\* opening or reading it throws.
FileExists(path) == path \in {F_a_vdb, F_b_vdb, F_a_nvdb, F_b_nvdb, S_vdb}

FileGrids(path) ==
    IF path = F_a_vdb THEN <<OpenGrid(G_1), OpenGrid(G_2)>>
    ELSE IF path = F_b_vdb THEN <<OpenGrid(G_2)>>
    ELSE IF path = S_vdb THEN <<>>
    ELSE IF path = F_a_nvdb THEN <<NanoGrid(G_1), NanoGrid(G_2)>>
    ELSE IF path = F_b_nvdb THEN <<NanoGrid(G_2)>>
    ELSE <<>>

\* nanovdb::openToNanoVDB(grid, sMode, cMode, false, verbose ? 1 : 0)
openToNanoVDB(grid, sMode, cMode) ==
    [name |-> grid.name, fmt |-> "nano", stats |-> sMode, checksum |-> cMode]

\* nanovdb::nanoToOpenVDB(handle)
nanoToOpenVDB(handle) == OpenGrid(handle.name)

\* nanovdb::io::writeGrid(os, handle, codec): one more grid at the end of
\* the stream.
writeGrid(stream, handle, codec) == Append(stream, [grid |-> handle, codec |-> codec])

\* The grids of a file that carry the given name, in file order.
Named(gs, name) == SelectSeq(gs, LAMBDA g : g.name = name)

\* readGrid(name): the first grid of that name, as a sequence of length one,
\* or the empty sequence when the file has none.
FirstNamed(gs, name) ==
    IF Named(gs, name) = <<>> THEN <<>> ELSE <<Head(Named(gs, name))>>

\* The grids of one input file that a run with this grid name converts.
Selected(path, gridName) ==
    IF gridName = <<>> THEN FileGrids(path) ELSE FirstNamed(FileGrids(path), gridName)

\* What the output path names before the run: nothing (no such file), an
\* empty file, or a file with earlier content, which the process may or may
\* not be allowed to read.
OldContent == <<[grid |-> OpenGrid(<<"o", "l", "d">>), codec |-> "NONE"]>>
NoFile == [exists |-> FALSE, readable |-> FALSE, data |-> <<>>]
EmptyFile == [exists |-> TRUE, readable |-> TRUE, data |-> <<>>]
OldFile == [exists |-> TRUE, readable |-> TRUE, data |-> OldContent]
UnreadableFile == [exists |-> TRUE, readable |-> FALSE, data |-> OldContent]

\* std::ifstream is(outputFile); is.peek() != eof.  A stream that could not
\* be opened for reading gives eof, as an empty file does.
PeekNotEof(f) == f.exists /\ f.readable /\ f.data # <<>>

\* The file after a successful open for writing: created, or truncated with
\* its permissions kept.
Truncated(f) ==
    [exists |-> TRUE, readable |-> IF f.exists THEN f.readable ELSE TRUE, data |-> <<>>]

\* ----------------------------------------------------------------- inputs
S_x == <<"-", "x">>
V_None == <<"N", "o", "n", "e">>

\* The arguments of the runs that exercise the conversion: the flags that
\* steer it, a grid name, input and output paths of both kinds and a path
\* without a dot.
FileTokens ==
    { S_f, S_g, S_h, G_1, F_a_vdb, F_b_vdb, F_a_nvdb, F_b_nvdb, S_vdb }

\* The arguments of the runs that exercise the argument loop: short and long
\* flags, flags that take a value, an unknown flag, a mode value in mixed
\* case, the empty argument and one path of each kind.
FlagTokens ==
    { S_force, S_help, S_z, S_c, S_stats, S_g, S_x, V_None, <<>>, F_a_vdb, F_a_nvdb }

ArgVectors(tokens) == UNION { [1..n -> tokens] : n \in 0..MaxArgs }

Answers ==
    { <<>>, S_Y, S_y, S_yes, S_YES, <<"Y", "e", "s">>, <<"y", "E", "s">>,
      <<"n">>, <<"N">>, <<"n", "o">> }

\* ------------------------------------------------------------------ state
VARIABLES
    argv,          \* argv[1..argc-1]
    i,             \* the index of the argument loop
    opt,           \* the option locals of main()
    outputFile,    \* the output path (line 120)
    toNanoVDB,     \* the direction (line 122)
    exitStatus,    \* the local exitStatus of main()
    pc,            \* the position of the run
    status,        \* the exit status of the process, once pc = "exit"
    exitVia,       \* how the process ended: "usage", "declined", "return"
    outFile,       \* the output file on disk
    outOrig,       \* the output file as it was before the run
    osOpen,        \* the std::ofstream os is open
    osData,        \* what has been written to os, flushed to the file or not
    outOpened,     \* the output file has been opened for writing
    prompted,      \* the overwrite prompt has been printed
    answer,        \* the line read at the prompt
    guardEvals,    \* how many times the overwrite guard has run
    k,             \* the index of the input file in the conversion loop
    opened,        \* the input files opened or read so far, in order
    pending,       \* the grids of the current input still to be converted
    grids,         \* the GridPtrVec collected for the whole-file write
    writes,        \* how many times file.write() was called
    threw          \* an exception was caught

vars ==
    << argv, i, opt, outputFile, toNanoVDB, exitStatus, pc, status, exitVia,
       outFile, outOrig, osOpen, osData, outOpened, prompted, answer, guardEvals,
       k, opened, pending, grids, writes, threw >>

parseVars == << outputFile, toNanoVDB >>
guardVars == << prompted, answer, guardEvals >>
fileVars == << outFile, outOrig, osOpen, osData, outOpened, writes >>
loopVars == << k, opened, pending, grids, threw >>

\* The state when main() is entered with one of the given argument vectors.
Start(args) ==
    /\ argv \in args
    /\ i = 1
    /\ opt = DefaultOptions
    /\ outputFile = <<>>
    /\ toNanoVDB = FALSE
    /\ exitStatus = EXIT_SUCCESS
    /\ pc = "parse"
    /\ status = EXIT_SUCCESS
    /\ exitVia = ""
    /\ outFile \in {NoFile, EmptyFile, OldFile, UnreadableFile}
    /\ outOrig = outFile
    /\ osOpen = FALSE
    /\ osData = <<>>
    /\ outOpened = FALSE
    /\ prompted = FALSE
    /\ answer = <<>>
    /\ guardEvals = 0
    /\ k = 0
    /\ opened = <<>>
    /\ pending = <<>>
    /\ grids = <<>>
    /\ writes = 0
    /\ threw = FALSE

Init == Start(ArgVectors(FileTokens))

InitFlags == Start(ArgVectors(FlagTokens))

\* usage(argv[0], exitStatus): print the usage text and exit (lines 22-38).
\* exit() runs no destructor of main()'s locals.
usage(exitCode) ==
    /\ pc' = "exit"
    /\ status' = exitCode
    /\ exitVia' = "usage"

\* ---------------------------------------------------------------- actions
\* One iteration of the argument loop (lines 50-115).
ParseStep ==
    /\ pc = "parse"
    /\ i <= Len(argv)
    /\ LET r == ParseArg(argv, i, opt)
       IN  IF r.end = "next"
           THEN /\ opt' = r.opt
                /\ i' = r.i
                /\ UNCHANGED << pc, status, exitVia >>
           ELSE /\ usage(IF r.end = "help" THEN EXIT_SUCCESS ELSE EXIT_FAILURE)
                /\ UNCHANGED << opt, i >>
    /\ UNCHANGED << argv, exitStatus, parseVars, guardVars, fileVars, loopVars >>

\* Mutant of CheckOperands: one operand is taken to be enough.
CheckOperandsOffByOne ==
    /\ pc = "parse"
    /\ i > Len(argv)
    /\ IF Len(opt.fileNames) < 1
       THEN usage(EXIT_FAILURE)
       ELSE /\ pc' = "classify"
            /\ UNCHANGED << status, exitVia >>
    /\ UNCHANGED << argv, i, opt, exitStatus, parseVars, guardVars, fileVars, loopVars >>

\* After the loop: the operand count check (lines 116-119).
CheckOperands ==
    /\ pc = "parse"
    /\ i > Len(argv)
    /\ IF Len(opt.fileNames) < 2
       THEN usage(EXIT_FAILURE)
       ELSE /\ pc' = "classify"
            /\ UNCHANGED << status, exitVia >>
    /\ UNCHANGED << argv, i, opt, exitStatus, parseVars, guardVars, fileVars, loopVars >>

\* The output path, its extension and the direction (lines 120-130).
ClassifyOutput ==
    /\ pc = "classify"
    /\ LET out == opt.fileNames[Len(opt.fileNames)]
           ext == Ext(out)
       IN  /\ outputFile' = out
           /\ toNanoVDB' = (ext = S_nvdb)
           /\ IF ext # S_nvdb /\ ext # S_vdb
              THEN /\ usage(EXIT_FAILURE)
                   /\ UNCHANGED opt
              ELSE /\ opt' = [opt EXCEPT !.fileNames = SubSeq(@, 1, Len(@) - 1)]
                   /\ pc' = "guard"
                   /\ UNCHANGED << status, exitVia >>
    /\ UNCHANGED << argv, i, exitStatus, guardVars, fileVars, loopVars >>

\* The overwrite guard (lines 132-143); the line read from standard input
\* is an input of the step.
OverwriteGuard ==
    /\ pc = "guard"
    /\ guardEvals' = guardEvals + 1
    /\ IF ~opt.overwrite /\ PeekNotEof(outFile)
       THEN /\ prompted' = TRUE
            /\ \E line \in Answers :
                  /\ answer' = line
                  /\ IF Proceeds(line)
                     THEN /\ pc' = "convert"
                          /\ UNCHANGED << status, exitVia >>
                     ELSE /\ pc' = "exit"
                          /\ status' = EXIT_SUCCESS
                          /\ exitVia' = "declined"
       ELSE /\ pc' = "convert"
            /\ UNCHANGED << prompted, answer, status, exitVia >>
    /\ UNCHANGED << argv, i, opt, exitStatus, parseVars, fileVars, loopVars >>

\* The output file once the stream os, if open, has been flushed: closing
\* the stream (scope exit, unwinding) flushes it, exit() does not.
Flushed == IF osOpen THEN [outFile EXCEPT !.data = osData] ELSE outFile

\* Mutant of throw: the catch handler leaves exitStatus as it is.
throwKeepsStatus ==
    /\ exitStatus' = exitStatus
    /\ threw' = TRUE
    /\ osOpen' = FALSE
    /\ pc' = "return"

\* An exception reaches the catch handlers (lines 217-224): the stream os
\* is closed by unwinding and exitStatus becomes EXIT_FAILURE.
throw ==
    /\ exitStatus' = EXIT_FAILURE
    /\ threw' = TRUE
    /\ osOpen' = FALSE
    /\ pc' = "return"

\* OpenVDB -> NanoVDB: the output stream is constructed (lines 145-153).
\* When the file can be opened it is created or truncated.  When it cannot
\* (a missing directory, no permission) the stream is left in a failed
\* state and the file as it was; the code does not test the stream, and the
\* run goes on either way.
BeginToNano ==
    /\ pc = "convert"
    /\ toNanoVDB
    /\ \E opens \in BOOLEAN :
          /\ outFile' = IF opens THEN Truncated(outFile) ELSE outFile
          /\ osOpen' = opens
          /\ outOpened' = opens
    /\ osData' = <<>>
    /\ k' = 1
    /\ pc' = "loop"
    /\ UNCHANGED << argv, i, opt, exitStatus, status, exitVia, parseVars, guardVars,
                    outOrig, writes, opened, pending, grids, threw >>

\* OpenVDB -> NanoVDB: the next input file is checked, opened and its grids
\* selected (lines 154-164 and 173).  The library may throw.  The usage
\* exit leaves what the stream has not flushed yet out of the file.
NextInputToNano ==
    /\ pc = "loop"
    /\ toNanoVDB
    /\ k <= Len(opt.fileNames)
    /\ LET inputFile == opt.fileNames[k]
           found == Selected(inputFile, opt.gridName)
       IN  IF Ext(inputFile) # S_vdb
           THEN /\ usage(EXIT_FAILURE)
                /\ UNCHANGED << exitStatus, osOpen, k, opened, pending, threw, outFile >>
           ELSE /\ opened' = Append(opened, inputFile)
                /\ \E fails \in BOOLEAN :
                      IF fails \/ ~FileExists(inputFile)
                               \/ (opt.gridName # <<>> /\ found = <<>>)
                      THEN /\ throw
                           /\ outFile' = Flushed
                           /\ UNCHANGED << status, exitVia, k, pending >>
                      ELSE /\ pending' = found
                           /\ k' = IF found = <<>> THEN k + 1 ELSE k
                           /\ pc' = IF found = <<>> THEN "loop" ELSE "grid"
                           /\ UNCHANGED << exitStatus, status, exitVia, osOpen, threw, outFile >>
    /\ UNCHANGED << argv, i, opt, parseVars, guardVars, outOrig, osData, outOpened,
                    writes, grids >>

\* OpenVDB -> NanoVDB: one grid is encoded and appended to the stream
\* (lines 165-171 and 174-178).  The library may throw.  A stream that
\* failed to open takes the write and stores nothing; an open stream holds
\* the grid, and any part of what it holds may have reached the file.
ConvertGridToNano ==
    /\ pc = "grid"
    /\ toNanoVDB
    /\ \E fails \in BOOLEAN :
          IF fails
          THEN /\ throw
               /\ outFile' = Flushed
               /\ UNCHANGED << osData, k, pending >>
          ELSE /\ LET handle == openToNanoVDB(Head(pending), opt.sMode, opt.cMode)
                  IN  osData' = IF osOpen THEN writeGrid(osData, handle, opt.codec) ELSE osData
               /\ IF osOpen
                  THEN \E n \in Len(outFile.data)..Len(osData') :
                          outFile' = [outFile EXCEPT !.data = SubSeq(osData', 1, n)]
                  ELSE outFile' = outFile
               /\ pending' = Tail(pending)
               /\ k' = IF Tail(pending) = <<>> THEN k + 1 ELSE k
               /\ pc' = IF Tail(pending) = <<>> THEN "loop" ELSE "grid"
               /\ UNCHANGED << exitStatus, osOpen, threw >>
    /\ UNCHANGED << argv, i, opt, status, exitVia, parseVars, guardVars, outOrig,
                    outOpened, writes, opened, grids >>

\* OpenVDB -> NanoVDB: the loop over the input files is over and the stream
\* goes out of scope, which flushes and closes it (line 180).
FinishToNano ==
    /\ pc = "loop"
    /\ toNanoVDB
    /\ k > Len(opt.fileNames)
    /\ osOpen' = FALSE
    /\ outFile' = Flushed
    /\ pc' = "return"
    /\ UNCHANGED << argv, i, opt, exitStatus, status, exitVia, parseVars, guardVars,
                    outOrig, osData, outOpened, writes, loopVars >>

\* NanoVDB -> OpenVDB: the File object and the empty grid vector
\* (lines 145 and 182-183); the output file is not opened.
BeginToOpen ==
    /\ pc = "convert"
    /\ ~toNanoVDB
    /\ grids' = <<>>
    /\ k' = 1
    /\ pc' = "loop"
    /\ UNCHANGED << argv, i, opt, exitStatus, status, exitVia, parseVars, guardVars,
                    fileVars, opened, pending, threw >>

\* Mutant of NextInputToOpen: an input without the named grid is skipped.
NextInputToOpenSkipsMissing ==
    /\ pc = "loop"
    /\ ~toNanoVDB
    /\ k <= Len(opt.fileNames)
    /\ LET inputFile == opt.fileNames[k]
           found == Selected(inputFile, opt.gridName)
       IN  IF Ext(inputFile) # S_nvdb
           THEN /\ usage(EXIT_FAILURE)
                /\ UNCHANGED << exitStatus, osOpen, k, opened, pending, threw >>
           ELSE /\ opened' = Append(opened, inputFile)
                /\ \E fails \in BOOLEAN :
                      IF fails \/ ~FileExists(inputFile)
                      THEN /\ throw
                           /\ UNCHANGED << status, exitVia, k, pending >>
                      ELSE IF opt.gridName # <<>> /\ found = <<>>
                      THEN /\ k' = k + 1
                           /\ UNCHANGED << exitStatus, status, exitVia, pc, osOpen, pending, threw >>
                      ELSE /\ pending' = found
                           /\ k' = IF found = <<>> THEN k + 1 ELSE k
                           /\ pc' = IF found = <<>> THEN "loop" ELSE "grid"
                           /\ UNCHANGED << exitStatus, status, exitVia, osOpen, threw >>
    /\ UNCHANGED << argv, i, opt, parseVars, guardVars, outFile, outOrig, osData, outOpened,
                    writes, grids >>

\* NanoVDB -> OpenVDB: the next input file is checked and read
\* (lines 184-192 and 199-203).  The library may throw.
NextInputToOpen ==
    /\ pc = "loop"
    /\ ~toNanoVDB
    /\ k <= Len(opt.fileNames)
    /\ LET inputFile == opt.fileNames[k]
           found == Selected(inputFile, opt.gridName)
       IN  IF Ext(inputFile) # S_nvdb
           THEN /\ usage(EXIT_FAILURE)
                /\ UNCHANGED << exitStatus, osOpen, k, opened, pending, threw >>
           ELSE /\ opened' = Append(opened, inputFile)
                /\ \E fails \in BOOLEAN :
                      IF fails \/ ~FileExists(inputFile)
                      THEN /\ throw
                           /\ UNCHANGED << status, exitVia, k, pending >>
                      ELSE IF opt.gridName # <<>> /\ found = <<>>
                      THEN /\ usage(EXIT_FAILURE)
                           /\ UNCHANGED << exitStatus, osOpen, k, pending, threw >>
                      ELSE /\ pending' = found
                           /\ k' = IF found = <<>> THEN k + 1 ELSE k
                           /\ pc' = IF found = <<>> THEN "loop" ELSE "grid"
                           /\ UNCHANGED << exitStatus, status, exitVia, osOpen, threw >>
    /\ UNCHANGED << argv, i, opt, parseVars, guardVars, outFile, outOrig, osData, outOpened,
                    writes, grids >>

\* NanoVDB -> OpenVDB: one handle is translated and collected
\* (lines 193-197 and 204-206).  The library may throw.
ConvertGridToOpen ==
    /\ pc = "grid"
    /\ ~toNanoVDB
    /\ \E fails \in BOOLEAN :
          IF fails
          THEN /\ throw
               /\ UNCHANGED << grids, k, pending >>
          ELSE /\ grids' = Append(grids, nanoToOpenVDB(Head(pending)))
               /\ pending' = Tail(pending)
               /\ k' = IF Tail(pending) = <<>> THEN k + 1 ELSE k
               /\ pc' = IF Tail(pending) = <<>> THEN "loop" ELSE "grid"
               /\ UNCHANGED << exitStatus, osOpen, threw >>
    /\ UNCHANGED << argv, i, opt, status, exitVia, parseVars, guardVars, outFile,
                    outOrig, osData, outOpened, writes, opened >>

\* Mutant of WriteFile: the whole-file write may follow the first input file.
WriteFileEarly ==
    /\ pc = "loop"
    /\ ~toNanoVDB
    /\ k > 1
    /\ writes' = writes + 1
    /\ outOpened' = TRUE
    /\ \E fails \in BOOLEAN :
          IF fails
          THEN /\ throw
               /\ outFile' \in {outFile, Truncated(outFile)}
          ELSE /\ outFile' = [Truncated(outFile) EXCEPT !.data = grids]
               /\ pc' = "return"
               /\ UNCHANGED << exitStatus, osOpen, threw >>
    /\ UNCHANGED << argv, i, opt, status, exitVia, parseVars, guardVars, outOrig,
                    osData, k, opened, pending, grids >>

\* NanoVDB -> OpenVDB: the whole-file write after the loop (line 209).  A
\* write that throws leaves the file as it was or cut short.
WriteFile ==
    /\ pc = "loop"
    /\ ~toNanoVDB
    /\ k > Len(opt.fileNames)
    /\ writes' = writes + 1
    /\ outOpened' = TRUE
    /\ \E fails \in BOOLEAN :
          IF fails
          THEN /\ throw
               /\ outFile' \in {outFile, Truncated(outFile)}
          ELSE /\ outFile' = [Truncated(outFile) EXCEPT !.data = grids]
               /\ pc' = "return"
               /\ UNCHANGED << exitStatus, osOpen, threw >>
    /\ UNCHANGED << argv, i, opt, status, exitVia, parseVars, guardVars, outOrig,
                    osData, k, opened, pending, grids >>

\* The end of main(): return exitStatus (lines 211-226).
Return ==
    /\ pc = "return"
    /\ status' = exitStatus
    /\ exitVia' = "return"
    /\ pc' = "exit"
    /\ UNCHANGED << argv, i, opt, exitStatus, parseVars, guardVars, fileVars, loopVars >>

Next ==
    \/ ParseStep
    \/ CheckOperands
    \/ ClassifyOutput
    \/ OverwriteGuard
    \/ BeginToNano
    \/ NextInputToNano
    \/ ConvertGridToNano
    \/ FinishToNano
    \/ BeginToOpen
    \/ NextInputToOpen
    \/ ConvertGridToOpen
    \/ WriteFile
    \/ Return

Spec == Init /\ [][Next]_vars

SpecFlags == InitFlags /\ [][Next]_vars

\* ------------------------------------------------------------- properties
Exited == pc = "exit"

\* The run is past the overwrite guard and in the conversion.
Converting == pc \in {"convert", "loop", "grid", "return"} \/ (Exited /\ k > 0)

\* The run ended at the flag -h/--help in the argument loop.
StoppedAtHelp ==
    /\ Exited
    /\ exitVia = "usage"
    /\ guardEvals = 0
    /\ i <= Len(argv)
    /\ argv[i] \in {S_h, S_help}

\* "y" or "yes" in any mix of upper and lower case, or the empty line.
AffirmativeAnyCase(line) == line = <<>> \/ ToLowerStr(line) \in {S_y, S_yes}

\* The output file existed and was not empty before the run.
HadData == outOrig.exists /\ outOrig.data # <<>>

\* The output file held data before the run and -f/--force was not given.
NeedsConsent == HadData /\ ~opt.overwrite

\* The output file is as it was before the run and was never opened for
\* writing; no input file was opened.
Untouched == outFile = outOrig /\ ~outOpened /\ writes = 0 /\ opened = <<>>

\* C2: when the output file exists, is non-empty and --force is absent, the
\* run prompts before anything else is done to the output file; after the
\* answer "n" the process has exited with status 0, the output file is
\* unchanged and was never opened for writing, and no input file was opened.
C2_DeclineLeavesOutput ==
    /\ (NeedsConsent /\ guardEvals > 0) => prompted
    /\ (NeedsConsent /\ ~prompted) => Untouched
    /\ (prompted /\ answer = <<"n">>) =>
          /\ Exited
          /\ exitVia = "declined"
          /\ status = EXIT_SUCCESS
          /\ Untouched

\* C3: at the overwrite prompt the run goes on to the conversion if and only
\* if the answer is empty or is "y" or "yes" in any mix of upper and lower
\* case; every other answer ends the run with exit status 0.
C3_AnswerAnyCase ==
    prompted =>
        /\ AffirmativeAnyCase(answer) <=> exitVia # "declined"
        /\ exitVia = "declined" => (Exited /\ status = EXIT_SUCCESS)

\* C10: an existing non-empty output file is opened for writing, truncated
\* or written only if --force was given or the prompt was answered
\* affirmatively; the guard runs at most once, after the argument loop and
\* the classification of the output extension, and before any input file is
\* opened; a run that converts has run it exactly once.
C10_OverwriteConsent ==
    /\ (HadData /\ (outOpened \/ outFile # outOrig)) =>
          \/ opt.overwrite
          \/ (prompted /\ answer \in {<<>>, S_Y, S_y, S_yes, S_YES})
    /\ guardEvals <= 1
    /\ guardEvals = 1 =>
          /\ i > Len(argv)
          /\ Ext(outputFile) \in {S_nvdb, S_vdb}
          /\ toNanoVDB <=> Ext(outputFile) = S_nvdb
    /\ (Converting \/ opened # <<>> \/ outOpened) => guardEvals = 1
    /\ pc \in {"parse", "classify", "guard"} => (guardEvals = 0 /\ Untouched)

\* ------------------------------------------- the command line, as written
\* The flags that take no value, and those that take one.
PlainFlags == {S_v, S_verbose, S_f, S_force, S_h, S_help, S_b, S_blosc, S_z, S_zip}
ValueFlags == {S_c, S_checksum, S_s, S_stats, S_g, S_grid}

\* The non-empty file-path operands of an argument vector, from index n on:
\* an argument that follows a value flag is that flag's value, not an operand.
RECURSIVE OperandsFrom(_, _)
OperandsFrom(args, n) ==
    IF n > Len(args) THEN <<>>
    ELSE IF IsOption(args[n])
         THEN OperandsFrom(args, IF args[n] \in ValueFlags THEN n + 2 ELSE n + 1)
         ELSE IF args[n] = <<>> THEN OperandsFrom(args, n + 1)
              ELSE <<args[n]>> \o OperandsFrom(args, n + 1)

Operands(args) == OperandsFrom(args, 1)

\* The argument vector holds, from index n on, an unknown flag, a value flag
\* as the last argument, or a checksum or stats value outside the modes.
RECURSIVE MalformedFrom(_, _)
MalformedFrom(args, n) ==
    IF n > Len(args) THEN FALSE
    ELSE IF ~IsOption(args[n]) \/ args[n] \in PlainFlags THEN MalformedFrom(args, n + 1)
    ELSE IF args[n] \notin ValueFlags THEN TRUE
    ELSE IF n = Len(args) THEN TRUE
    ELSE IF args[n] \in {S_c, S_checksum}
            /\ ToLowerStr(args[n + 1]) \notin {S_none, S_partial, S_full} THEN TRUE
    ELSE IF args[n] \in {S_s, S_stats}
            /\ ToLowerStr(args[n + 1]) \notin {S_none, S_bbox, S_extrema, S_all} THEN TRUE
    ELSE MalformedFrom(args, n + 2)

Malformed(args) == MalformedFrom(args, 1)

\* The run never left the argument loop and touched no file.
EndsInParsing ==
    /\ pc \in {"parse", "exit"}
    /\ guardEvals = 0
    /\ ~prompted
    /\ Untouched
    /\ Exited => exitVia = "usage"

\* C4 as stated: with fewer than two non-empty file-path operands the
\* process prints usage and exits with a non-zero status, whatever flags are
\* given, -h/--help included.
C4_FewOperandsFail ==
    Len(Operands(argv)) < 2 =>
        /\ EndsInParsing
        /\ Exited => status # EXIT_SUCCESS

\* C4 as amended: with fewer than two non-empty file-path operands the
\* process prints usage and exits in the argument phase; the status is
\* non-zero unless the run ended at a -h/--help flag, and then it is 0.
C4_FewOperandsUsage ==
    Len(Operands(argv)) < 2 =>
        /\ EndsInParsing
        /\ Exited => (status = EXIT_SUCCESS <=> StoppedAtHelp)
        /\ Exited => status \in {EXIT_SUCCESS, EXIT_FAILURE}

C4_Witness ==
    /\ Len(Operands(argv)) = 1
    /\ Len(argv) >= 3
    /\ Len(opt.fileNames) = 1
    /\ opt.overwrite
    /\ i > Len(argv)
    /\ Exited
    /\ status = EXIT_FAILURE

\* C9 as stated: an argument vector with an unknown flag, a -c/-s/-g flag
\* with no value after it, or a checksum or stats value outside the modes
\* ends with usage text and a failure exit code during parsing; the run
\* never goes on with a default or earlier mode, and no file is opened.
C9_MalformedFail ==
    Malformed(argv) =>
        /\ EndsInParsing
        /\ Exited => status = EXIT_FAILURE

\* C9 as amended: such an argument vector ends with usage text during
\* parsing and no file is opened; the exit code is a failure unless the run
\* ended at a -h/--help flag that precedes the malformed argument, and then
\* it is 0.
C9_MalformedUsage ==
    Malformed(argv) =>
        /\ EndsInParsing
        /\ Exited => (status = EXIT_SUCCESS <=> StoppedAtHelp)
        /\ Exited => status \in {EXIT_SUCCESS, EXIT_FAILURE}
        /\ (Exited /\ ~StoppedAtHelp) => (i <= Len(argv) /\ ParseArg(argv, i, opt).end = "fail")

C9_Witness ==
    /\ Exited
    /\ status = EXIT_FAILURE
    /\ Len(opt.fileNames) = 2
    /\ i = 3
    /\ argv[i] \in {S_c, S_stats}
    /\ i < Len(argv)
    /\ argv[i + 1] = F_a_vdb

\* ----------------------------------------------------- direction and inputs
\* The output extension was recognised (lines 121-128); from then on
\* opt.fileNames holds the input paths only.
Classified == Ext(outputFile) \in {S_nvdb, S_vdb}

\* The extension every input must have for the direction of the run.
InputExt == IF toNanoVDB THEN S_vdb ELSE S_nvdb

\* Some input path has another extension than the direction asks for.
InputMismatch == \E j \in 1..Len(opt.fileNames) : Ext(opt.fileNames[j]) # InputExt

\* The argument vector, as written, has a usage error: a malformed flag,
\* fewer than two operands, an unrecognised output extension or an input
\* extension that does not match the direction.
UsageErrorIn(args) ==
    \/ Malformed(args)
    \/ Len(Operands(args)) < 2
    \/ LET ops == Operands(args)
           out == ops[Len(ops)]
           want == IF Ext(out) = S_nvdb THEN S_vdb ELSE S_nvdb
       IN  \/ Ext(out) \notin {S_nvdb, S_vdb}
           \/ \E j \in 1..(Len(ops) - 1) : Ext(ops[j]) # want

\* C1: in a run whose output extension is recognised and one of whose inputs
\* has the wrong extension, no input file is ever opened or read and the
\* output file is never opened for writing, truncated or written, wherever
\* the mismatching input stands; the run, once in the conversion, ends with
\* the usage error.
C1_MismatchTouchesNoFile ==
    (Classified /\ InputMismatch) =>
        /\ opened = <<>>
        /\ ~outOpened
        /\ outFile = outOrig
        /\ (Exited /\ Converting) => (exitVia = "usage" /\ status = EXIT_FAILURE)

\* C6 as stated: the exit status is 0 when the conversion completes and when
\* the user declines the overwrite, and non-zero for every run that has a
\* usage error or in which a library call throws; after a thrown exception
\* no further input file or grid is processed.
C6_ExitStatus ==
    /\ Exited =>
          /\ (exitVia = "declined" \/ (exitVia = "return" /\ ~threw)) => status = EXIT_SUCCESS
          /\ (UsageErrorIn(argv) \/ threw) => status # EXIT_SUCCESS
    /\ threw => pc \in {"return", "exit"}

\* After a thrown exception no input file is opened, no grid converted and
\* nothing more written.
AfterThrowNothingMore ==
    threw => (opened' = opened /\ grids' = grids /\ pending' = pending
              /\ outFile' = outFile /\ writes' = writes /\ threw')

\* C6 as amended: the exit status is 0 when the conversion completes, when
\* the user declines the overwrite and when the run ends at -h/--help; it is
\* non-zero for every run that ends any other way, so for every run with a
\* usage error that was not ended before by -h/--help or by a declined
\* prompt, and for every run in which a library call throws; after a thrown
\* exception no further input file or grid is processed.
C6_ExitStatusByEnding ==
    /\ [](Exited =>
            /\ status = IF exitVia = "declined" \/ StoppedAtHelp
                           \/ (exitVia = "return" /\ ~threw)
                        THEN EXIT_SUCCESS ELSE EXIT_FAILURE
            /\ (UsageErrorIn(argv) /\ exitVia # "declined" /\ ~StoppedAtHelp)
                  => (exitVia = "usage" \/ threw))
    /\ [][AfterThrowNothingMore]_vars

C6_Witness ==
    /\ Exited
    /\ threw
    /\ status = EXIT_FAILURE
    /\ Len(opt.fileNames) = 2
    /\ k = 1
    /\ pending # <<>>
    /\ InputMismatch

\* No grid of any input file carries the name given with -g/--grid.
NoInputHasGrid ==
    \A j \in 1..Len(opt.fileNames) : Named(FileGrids(opt.fileNames[j]), opt.gridName) = <<>>

\* The case of C5: a grid name is given, the output extension is vdb and no
\* input has a grid of that name.
NamedGridMissing ==
    /\ Classified
    /\ ~toNanoVDB
    /\ opt.gridName # <<>>
    /\ NoInputHasGrid

\* C5 as stated: with -g name, the direction NanoVDB -> OpenVDB and no grid
\* of that name in any input, the run ends with a non-zero exit status and
\* the output file is never written.
C5_MissingGridFails ==
    NamedGridMissing =>
        /\ writes = 0 /\ ~outOpened /\ outFile = outOrig
        /\ Exited => status # EXIT_SUCCESS

\* C5 as amended: in that case the output file is never written, and the run
\* ends with a non-zero exit status unless the user declined the overwrite
\* at the prompt (status 0).
C5_MissingGridNoWrite ==
    NamedGridMissing =>
        /\ writes = 0 /\ ~outOpened /\ outFile = outOrig
        /\ pc # "return" \/ threw
        /\ Exited => (status = EXIT_SUCCESS <=> exitVia = "declined")
        /\ (Exited /\ exitVia # "declined") => status = EXIT_FAILURE

C5_Witness ==
    /\ NamedGridMissing
    /\ Exited
    /\ exitVia = "usage"
    /\ status = EXIT_FAILURE
    /\ opened = <<F_b_nvdb>>
    /\ opt.gridName = G_1
    /\ outOrig = OldFile

\* ------------------------------------------------------- conversion order
\* The grids the run converts from the first n input files, in operand order
\* and then in file order.
RECURSIVE SelectedUpTo(_)
SelectedUpTo(n) ==
    IF n = 0 THEN <<>>
    ELSE SelectedUpTo(n - 1) \o Selected(opt.fileNames[n], opt.gridName)

\* The grids converted so far: those of the inputs before the current one
\* and, of the current one, those no longer pending.
ConvertedSoFar ==
    LET before == IF k = 0 THEN 0 ELSE k - 1
        whole == IF pending = <<>> THEN <<>> ELSE Selected(opt.fileNames[k], opt.gridName)
    IN  SelectedUpTo(before) \o SubSeq(whole, 1, Len(whole) - Len(pending))

\* A sequence of OpenVDB grids as the run encodes and writes them.
Encoded(gs) ==
    [n \in 1..Len(gs) |->
        [grid |-> openToNanoVDB(gs[n], opt.sMode, opt.cMode), codec |-> opt.codec]]

\* A sequence of NanoVDB grids as the run translates them.
Translated(gs) == [n \in 1..Len(gs) |-> nanoToOpenVDB(gs[n])]

\* The run returned from main() without an exception.
Completed == Exited /\ exitVia = "return" /\ ~threw

\* C7: in the direction NanoVDB -> OpenVDB the output file is written at
\* most once, and only after every input file has been read and every
\* selected grid translated; when an input fails (extension mismatch, missing
\* named grid, exception) the write never happens.
C7_SingleWriteAfterAllInputs ==
    (Classified /\ ~toNanoVDB) =>
        /\ writes <= 1
        /\ outOpened <=> writes = 1
        /\ writes = 1 =>
              /\ opened = opt.fileNames
              /\ pending = <<>>
              /\ grids = Translated(SelectedUpTo(Len(opt.fileNames)))
              /\ ~InputMismatch
              /\ pc \in {"return", "exit"}
              /\ exitVia # "usage"
        /\ writes = 0 => outFile = outOrig
        /\ (writes = 1 /\ ~threw) => (outFile.exists /\ outFile.data = grids)
        /\ Completed => writes = 1

C7_Witness ==
    /\ Classified
    /\ ~toNanoVDB
    /\ Completed
    /\ writes = 1
    /\ opened = <<F_a_nvdb, F_b_nvdb>>
    /\ Len(outFile.data) = 3

\* C8: in the direction OpenVDB -> NanoVDB, from the construction of the
\* output stream on, the stream holds exactly the encoded selected grids of
\* the inputs processed so far, in operand order and then in file order; an
\* input file is opened only when every grid of the inputs before it has
\* been written; on successful completion the output file is the
\* concatenation of the selected grids of all inputs in operand order.
C8_IncrementalAppend ==
    (Classified /\ toNanoVDB) =>
        /\ writes = 0
        /\ k > 0 => osData = Encoded(ConvertedSoFar)
        /\ k = 0 => outFile = outOrig
        /\ Len(opened) <= k
        /\ opened = SubSeq(opt.fileNames, 1, Len(opened))
        /\ Completed =>
              (outFile.exists /\ outFile.data = Encoded(SelectedUpTo(Len(opt.fileNames))))

====
